---------------------------- MODULE Spec2Model ----------------------------
(***************************************************************************)
(* The TradingView webhook handler of src/main.py (tradingview_webhook)    *)
(* as a state machine.  Every exchange call of the handler is one atomic   *)
(* step of the worker thread that runs it; the local computation that      *)
(* follows a call up to the next call (or the return) belongs to the same  *)
(* step.  FastAPI runs a plain `def` endpoint on a thread pool, so several *)
(* workers can be inside the handler at once; the handler takes no lock.   *)
(*                                                                         *)
(* Numbers.  Sizes are counted in units of 10^-3 BTC (SizeScale decimals,  *)
(* the finest rounding the handler uses).  A position size szi is a pair   *)
(* <<u, d>>: u thousandths of a BTC plus d * 5e-10 BTC, d \in {-1,0,1},    *)
(* so that sizes below the handler's 1e-9 threshold exist in the model.    *)
(* Money (account value, price) is in whole USD.  The quotient the handler *)
(* rounds is kept exact as a fraction.                                     *)
(***************************************************************************)
EXTENDS Integers, Sequences, FiniteSets, TLC

\* ------------------------------------------------------------------ bounds
NumWorkers == 2      \* worker threads of the server's pool
MaxAlerts == 2       \* webhook requests delivered in one run

\* ----------------------------------------------------------- configuration
\* os.getenv("DEFAULT_LEVERAGE"), os.getenv("MAX_RISK_PCT"): "" is unset.
DEFAULT_LEVERAGE == ""
MAX_RISK_PCT == "2"

\* int(s) / float(s) of the strings that occur as configuration or payload
\* values: Parses(s) is FALSE where both raise ValueError.
Numerals == {"0", "1", "2", "3", "-1", "-5", "150"}
Parses(s) == s \in Numerals
ParseNum(s) ==
    CASE s = "0" -> 0
      [] s = "1" -> 1
      [] s = "2" -> 2
      [] s = "3" -> 3
      [] s = "-1" -> -1
      [] s = "-5" -> -5
      [] s = "150" -> 150

default_leverage_val ==
    IF DEFAULT_LEVERAGE = "" THEN 1
    ELSE IF ~Parses(DEFAULT_LEVERAGE) THEN 1
    ELSE ParseNum(DEFAULT_LEVERAGE)

default_risk_pct ==
    IF MAX_RISK_PCT = "" THEN 1
    ELSE IF ~Parses(MAX_RISK_PCT) THEN 1
    ELSE ParseNum(MAX_RISK_PCT)

\* ------------------------------------------------------------------ inputs
Workers == 1..NumWorkers
Coins == {"BTC", "ETH"}
Missing == "<missing>"          \* the key is not in the payload

\* str.upper() on the action strings that occur.
Upper(s) ==
    CASE s = "buy" -> "BUY"
      [] s = "sell" -> "SELL"
      [] s = "hold" -> "HOLD"
      [] OTHER -> s

\* The webhook payloads: the action under "action" or under "signal".  An
\* alert for ETH leaves leverage and risk to the defaults; an alert that sets
\* both sets them to "3" and "150".
Alerts ==
    { p \in { [action |-> a[1], signal |-> a[2], coin |-> c, leverage |-> l, risk_pct |-> k] :
                a \in { <<"buy", Missing>>, <<Missing, "SELL">>, <<"hold", Missing>>,
                        <<Missing, Missing>> },
                c \in Coins,
                l \in {Missing, "x", "0", "-1", "3"},
                k \in {Missing, "150", "-5"} } :
        /\ p.coin = "ETH" => (p.leverage = Missing /\ p.risk_pct = Missing)
        /\ (p.leverage # Missing /\ p.risk_pct # Missing)
              => (p.leverage = "3" /\ p.risk_pct = "150") }

\* Alerts that leave leverage and risk to the defaults and name BTC.
PlainAlerts ==
    { p \in Alerts : /\ p.leverage = Missing /\ p.risk_pct = Missing
                     /\ p.coin = "BTC"
                     /\ <<p.action, p.signal>> \in {<<"buy", Missing>>, <<Missing, "SELL">>} }

\* payload.get("action") or payload.get("signal"); Missing is falsy.
RawAction(p) == IF p.action # Missing THEN p.action ELSE p.signal

\* action after action.upper() (only read when RawAction is present).
ActionOf(p) == Upper(RawAction(p))

\* leverage_val after the payload override.
LeverageVal(p) ==
    IF p.leverage = Missing THEN default_leverage_val
    ELSE IF ~Parses(p.leverage) THEN default_leverage_val
    ELSE ParseNum(p.leverage)

\* risk_pct after the payload override and the clamp to 0..100.
RiskPct(p) ==
    LET raw == IF p.risk_pct = Missing THEN default_risk_pct
               ELSE IF ~Parses(p.risk_pct) THEN default_risk_pct
               ELSE ParseNum(p.risk_pct)
    IN  IF raw > 100 THEN 100 ELSE IF raw < 0 THEN 0 ELSE raw

\* ---------------------------------------------------------------- exchange
NoEntry == <<>>                 \* no assetPositions entry for the coin
SziValues == { <<0, 0>>, <<0, 1>>, <<0, -1>>, <<50, 0>>, <<-50, 0>> }
EthSzi == <<777, 0>>            \* the account's ETH position, never touched
Equities == {0, 100}            \* crossMarginSummary.accountValue
\* all_mids(): the mid-price book, with or without a BTC entry.
MidBooks == { [c \in {"BTC", "ETH"} |-> IF c = "BTC" THEN 40 ELSE 20],
              [c \in {"ETH"} |-> 20] }
\* meta()["universe"]: name -> szDecimals.
Universes == { [c \in {"BTC", "ETH"} |-> IF c = "BTC" THEN 2 ELSE 1],
               [c \in {"BTC", "ETH"} |-> 0],
               [c \in {"ETH"} |-> 1] }
EntryPx == 40                   \* entryPx the exchange reports for an open position
FallbackDecimals == 3           \* round(size_btc, 3) when meta() fails
SizeScale == FallbackDecimals   \* sizes are counted in units of 10^-SizeScale

SziSign(s) == IF s[1] # 0 THEN (IF s[1] > 0 THEN 1 ELSE -1) ELSE s[2]
\* Faulty variant: the sign of the size is kept.
SziSigned(s) == s

\* abs(szi)
SziAbs(s) == IF SziSign(s) < 0 THEN <<-s[1], -s[2]>> ELSE s
\* abs(szi) < 1e-9: a thousandth is far above the threshold, a residue below.
SziTiny(s) == s[1] = 0

\* The loop over user_state["assetPositions"] looking for `coin`:
\* <<found, szi>>, szi being float(pos_info.get("szi", 0)).
FindPosition(state, coin) ==
    IF state[coin] = NoEntry THEN <<FALSE, <<0, 0>>>> ELSE <<TRUE, state[coin]>>

Classify(found, szi) ==
    IF ~found THEN "None"
    ELSE IF SziTiny(szi) THEN "FLAT"
    ELSE IF SziSign(szi) > 0 THEN "LONG"
    ELSE "SHORT"

\* price_info.get(coin, 0)
MidOf(book, coin) == IF coin \in DOMAIN book THEN book[coin] ELSE 0

\* sz_decimals from the loop over meta["universe"]
SzDecimalsOf(universe, coin) == IF coin \in DOMAIN universe THEN universe[coin] ELSE 0

Pow10(n) == IF n = 0 THEN 1 ELSE IF n = 1 THEN 10 ELSE IF n = 2 THEN 100 ELSE 1000

\* Python's round() of the fraction n/d to an integer: to nearest, ties to even.
RoundHalfEven(n, d) ==
    LET a == IF n < 0 THEN -n ELSE n
        q == a \div d
        rem == a % d
        m == IF 2 * rem > d \/ (2 * rem = d /\ q % 2 = 1) THEN q + 1 ELSE q
    IN  IF n < 0 THEN -m ELSE m

\* round(x, decimals) of x = n/d, in units of 10^-SizeScale.
RoundTo(n, d, decimals) ==
    RoundHalfEven(n * Pow10(decimals), d) * Pow10(SizeScale - decimals)

\* size_btc before rounding, as the fraction <<numerator, denominator>>:
\* account_value * (risk_pct / 100) * leverage_val / btc_price.
RawSize(av, risk, lev, price) == << av * risk * lev, 100 * price >>

\* ------------------------------------------------------------------- state
VARIABLES
    pc,                \* worker -> where it is in the handler
    payload,           \* worker -> the request it is handling
    current_position,  \* worker -> "None" | "FLAT" | "LONG" | "SHORT"
    current_size,      \* worker -> szi of the BTC entry it read
    new_state,         \* worker -> szi of the BTC entry in new_state, or NoEntry
    account_value,     \* worker -> equity from new_state
    btc_price,         \* worker -> mid price it read
    size_btc,          \* worker -> rounded order size
    calls,             \* worker -> the exchange mutation calls of its request
    response,          \* worker -> what it returned
    log,               \* worker -> the errors it logged (logging.error)
    positions,         \* exchange: coin -> szi | NoEntry
    served             \* requests delivered so far

vars == << pc, payload, current_position, current_size, new_state, account_value,
           btc_price, size_btc, calls, response, log, positions, served >>

locals == << current_position, current_size, new_state, account_value, btc_price,
             size_btc >>

NoPayload == [action |-> Missing, signal |-> Missing, coin |-> "BTC",
              leverage |-> Missing, risk_pct |-> Missing]
NoResponse == [http |-> 0, status |-> "", action |-> "", size |-> <<0, 0>>,
               price |-> <<>>, account_value |-> 0]
\* raise HTTPException(status_code=400, detail="No action specified in alert")
NoActionResponse == [NoResponse EXCEPT !.http = 400, !.status = "No action specified in alert"]
\* return JSONResponse(content={"status": "error"}): the default status code
ErrorResponse == [NoResponse EXCEPT !.http = 200, !.status = "error"]
\* the dict the handler returns; price is <<>> for None
SuccessResponse(act, sz, px, av) ==
    [http |-> 200, status |-> "success", action |-> act, size |-> sz,
     price |-> px, account_value |-> av]

\* The keys of the body the client receives: the error body is the one key
\* "status", the refusal carries FastAPI's "detail", a success all five.
BodyKeys(resp) ==
    IF resp.http = 400 THEN {"detail"}
    ELSE IF resp.status = "error" THEN {"status"}
    ELSE IF resp.status = "success"
      THEN {"action", "size", "price", "account_value", "status"}
    ELSE {}

\* One exchange mutation call as the handler issued it, with what came back:
\* "ok" / "err" (a dict whose status is not "ok") / "none" / "raise".
Call(fn, coin, lev, is_buy, size, res) ==
    [fn |-> fn, coin |-> coin, lev |-> lev, is_buy |-> is_buy, size |-> size, res |-> res]

\* market_close returns None when it finds no position to close; the other
\* two return the exchange's answer or raise.
CloseResults == {"ok", "err", "none", "raise"}
PostResults == {"ok", "err", "raise"}
\* A read of exchange.info returns the data or raises; "rate_limited" is the
\* exception the client raises when the exchange answers HTTP 429.
ReadResults == {"ok", "rate_limited", "raise"}

Init ==
    /\ pc = [r \in Workers |-> "idle"]
    /\ payload = [r \in Workers |-> NoPayload]
    /\ current_position = [r \in Workers |-> "None"]
    /\ current_size = [r \in Workers |-> <<0, 0>>]
    /\ new_state = [r \in Workers |-> NoEntry]
    /\ account_value = [r \in Workers |-> 0]
    /\ btc_price = [r \in Workers |-> 0]
    /\ size_btc = [r \in Workers |-> 0]
    /\ calls = [r \in Workers |-> <<>>]
    /\ response = [r \in Workers |-> NoResponse]
    /\ log = [r \in Workers |-> <<>>]
    /\ \E s \in SziValues \cup {NoEntry} :
          positions = [c \in Coins |-> IF c = "BTC" THEN s ELSE EthSzi]
    /\ served = 0

\* The messages of the handler's logging.error calls.
LogNoAction == "Received webhook with no action field"
LogBadLeverage == "Invalid leverage value in payload"
LogBadRisk == "Invalid risk_pct value in payload"
LogCloseShort == "Error closing short position"
LogCloseLong == "Error closing long position"
LogLeverageFailed == "Leverage update failed"
LogLeverageRaised == "Exception during leverage update"
LogNoPrice == "Failed to retrieve BTC price for sizing"
LogSize == "Calculated trade size is non-positive"
LogOrderFailed == "Market order failed"
LogException == "Exception in webhook processing"
LogRateLimited == "Exception in webhook processing: 429"

\* The handler returns `resp` without logging an error.
Return(r, resp) ==
    /\ pc' = [pc EXCEPT ![r] = "done"]
    /\ response' = [response EXCEPT ![r] = resp]
    /\ UNCHANGED log

\* The handler logs `msg` and returns JSONResponse(content={"status": "error"}).
Fail(r, msg) ==
    /\ pc' = [pc EXCEPT ![r] = "done"]
    /\ response' = [response EXCEPT ![r] = ErrorResponse]
    /\ log' = [log EXCEPT ![r] = Append(@, msg)]

\* Faulty variant: the call that raised is made again.
RaiseAndRetry(r) ==
    /\ log' = [log EXCEPT ![r] = Append(@, LogException)]
    /\ UNCHANGED << pc, response >>

\* Lines 198-201: an exception reaches the handler's catch-all.
Raise(r) == Fail(r, LogException)

\* Lines 198-201 for a read that raised: the message carries the exception.
RaiseRead(r, res) == Fail(r, IF res = "rate_limited" THEN LogRateLimited ELSE LogException)

Goto(r, label) ==
    /\ pc' = [pc EXCEPT ![r] = label]
    /\ UNCHANGED << response, log >>

\* Faulty variant: the instrument is taken from the request.
InstrumentOfPayload(p) == p.coin

\* The instrument the handler trades.
Instrument(p) == "BTC"

\* Faulty variant: the side is inverted.
IsBuyInverted(act) == act # "BUY"

\* is_buy = True if action == "BUY" else False
IsBuy(act) == act = "BUY"

\* Faulty variant: the BUY-while-SHORT branch of the close is lost.
NeedsCloseSellOnly(act, pos) == act = "SELL" /\ pos = "LONG"

\* Lines 103 and 111: a close is needed.
NeedsClose(act, pos) ==
    \/ act = "BUY" /\ pos = "SHORT"
    \/ act = "SELL" /\ pos = "LONG"

\* Faulty variant: the SELL-while-SHORT return is lost.
AlreadyThereBuyOnly(act, pos) == act = "BUY" /\ pos = "LONG"

\* Lines 120 and 123: already in the desired position.
AlreadyThere(act, pos) ==
    \/ act = "BUY" /\ pos = "LONG"
    \/ act = "SELL" /\ pos = "SHORT"

\* Lines 56-73: what reading the payload logs.
PayloadLog(p) ==
    IF RawAction(p) = Missing THEN << LogNoAction >>
    ELSE (IF p.leverage # Missing /\ ~Parses(p.leverage) THEN << LogBadLeverage >> ELSE <<>>)
         \o (IF p.risk_pct # Missing /\ ~Parses(p.risk_pct) THEN << LogBadRisk >> ELSE <<>>)

Free(r) == pc[r] \in {"idle", "done"}
InFlight(r) == ~Free(r)

\* The pool hands a request to its first free worker.
FirstFree(r) == Free(r) /\ \A o \in Workers : o < r => InFlight(o)

\* Lines 105-107, 113-114: the close came back, and not with status "ok".
CloseFailed(res) == res # "none" /\ res # "ok"

\* Faulty variant: the status of the answer is not looked at.
PostFailedNever(res) == FALSE

\* Lines 130, 172: a dict came back whose status is not "ok".
PostFailed(res) == res # "ok"

\* Line 147: no usable price.
NoPrice(px) == px <= 0

\* Faulty variant: a size of zero passes the check.
SizeRejectedBelowZero(sz) == sz < 0

\* Line 165: the rounded size is refused.
SizeRejected(sz) == sz <= 0

\* Lines 55-79: worker r takes request p; a payload without action is
\* refused.  What the finished handlers left behind is dropped.
Receive(r, p) ==
    /\ FirstFree(r)
    /\ served < MaxAlerts
    /\ served' = served + 1
    /\ payload' = [w \in Workers |-> IF w = r THEN p
                                     ELSE IF Free(w) THEN NoPayload ELSE payload[w]]
    /\ current_position' = [w \in Workers |-> IF Free(w) THEN "None" ELSE current_position[w]]
    /\ current_size' = [w \in Workers |-> IF Free(w) THEN <<0, 0>> ELSE current_size[w]]
    /\ new_state' = [w \in Workers |-> IF Free(w) THEN NoEntry ELSE new_state[w]]
    /\ account_value' = [w \in Workers |-> IF Free(w) THEN 0 ELSE account_value[w]]
    /\ btc_price' = [w \in Workers |-> IF Free(w) THEN 0 ELSE btc_price[w]]
    /\ size_btc' = [w \in Workers |-> IF Free(w) THEN 0 ELSE size_btc[w]]
    /\ calls' = [w \in Workers |-> IF Free(w) THEN <<>> ELSE calls[w]]
    /\ pc' = [w \in Workers |->
                IF w = r THEN (IF RawAction(p) = Missing THEN "done" ELSE "user_state")
                ELSE IF Free(w) THEN "idle" ELSE pc[w]]
    /\ response' = [w \in Workers |->
                IF w = r /\ RawAction(p) = Missing THEN NoActionResponse
                ELSE IF Free(w) THEN NoResponse ELSE response[w]]
    /\ log' = [w \in Workers |->
                IF w = r THEN PayloadLog(p) ELSE IF Free(w) THEN <<>> ELSE log[w]]
    /\ UNCHANGED positions

\* Lines 83-125 up to the first mutation call: read the account, classify the
\* BTC position, and either return (already there) or go on.
UserState(r) ==
    /\ pc[r] = "user_state"
    /\ \E res \in ReadResults, av \in Equities :
         IF res # "ok"
           THEN /\ RaiseRead(r, res)
                /\ UNCHANGED << current_position, current_size >>
           ELSE LET f == FindPosition(positions, Instrument(payload[r]))
                    pos == Classify(f[1], f[2])
                    act == ActionOf(payload[r])
                IN  /\ current_position' = [current_position EXCEPT ![r] = pos]
                    /\ current_size' = [current_size EXCEPT ![r] = f[2]]
                    /\ IF NeedsClose(act, pos) THEN Goto(r, "market_close")
                       ELSE IF AlreadyThere(act, pos)
                         THEN Return(r, SuccessResponse(act, SziAbs(f[2]), <<>>, av))
                       ELSE Goto(r, "update_leverage")
    /\ UNCHANGED << payload, new_state, account_value, btc_price, size_btc, calls,
                    positions, served >>

\* Lines 104-117: exchange.market_close("BTC").
MarketClose(r) ==
    /\ pc[r] = "market_close"
    /\ \E res \in CloseResults :
         /\ calls' = [calls EXCEPT ![r] =
                Append(@, Call("market_close", Instrument(payload[r]), 0, FALSE, 0, res))]
         /\ positions' = IF res = "ok"
                           THEN [positions EXCEPT ![Instrument(payload[r])] = NoEntry]
                           ELSE positions
         /\ IF res = "raise" THEN Raise(r)
            ELSE IF CloseFailed(res)
              THEN Fail(r, IF ActionOf(payload[r]) = "BUY" THEN LogCloseShort ELSE LogCloseLong)
            ELSE Goto(r, "update_leverage")
    /\ UNCHANGED << payload, locals, served >>

\* Lines 128-136: exchange.update_leverage(leverage_val, "BTC", is_cross=True).
UpdateLeverage(r) ==
    /\ pc[r] = "update_leverage"
    /\ \E res \in PostResults :
         /\ calls' = [calls EXCEPT ![r] =
                Append(@, Call("update_leverage", Instrument(payload[r]),
                               LeverageVal(payload[r]), FALSE, 0, res))]
         /\ IF res = "raise" THEN Fail(r, LogLeverageRaised)
            ELSE IF PostFailed(res) THEN Fail(r, LogLeverageFailed)
            ELSE Goto(r, "new_state")
    /\ UNCHANGED << payload, locals, positions, served >>

\* Lines 140-143: the account is read again for its value.
NewState(r) ==
    /\ pc[r] = "new_state"
    /\ \E res \in ReadResults, av \in Equities :
         IF res # "ok"
           THEN /\ RaiseRead(r, res)
                /\ UNCHANGED << new_state, account_value >>
           ELSE /\ new_state' = [new_state EXCEPT ![r] = positions[Instrument(payload[r])]]
                /\ account_value' = [account_value EXCEPT ![r] = av]
                /\ Goto(r, "all_mids")
    /\ UNCHANGED << payload, current_position, current_size, btc_price, size_btc,
                    calls, positions, served >>

\* Lines 145-149: the mid price of BTC.
AllMids(r) ==
    /\ pc[r] = "all_mids"
    /\ \E res \in ReadResults, book \in MidBooks :
         IF res # "ok"
           THEN /\ RaiseRead(r, res)
                /\ UNCHANGED btc_price
           ELSE LET px == MidOf(book, Instrument(payload[r]))
                IN  /\ btc_price' = [btc_price EXCEPT ![r] = px]
                    /\ IF NoPrice(px) THEN Fail(r, LogNoPrice) ELSE Goto(r, "meta")
    /\ UNCHANGED << payload, current_position, current_size, new_state, account_value,
                    size_btc, calls, positions, served >>

\* Lines 151-164: size_btc, rounded to the instrument's szDecimals or, when
\* meta() fails, to FallbackDecimals.
SizeBtc(av, risk, lev, price, decimals) ==
    LET q == RawSize(av, risk, lev, price)
    IN  RoundTo(q[1], q[2], decimals)

\* Lines 154-167: meta(), the rounding and the size check.
Meta(r) ==
    /\ pc[r] = "meta"
    /\ \E raised \in BOOLEAN, universe \in Universes :
         LET decimals == IF raised THEN FallbackDecimals
                         ELSE SzDecimalsOf(universe, Instrument(payload[r]))
             sz == SizeBtc(account_value[r], RiskPct(payload[r]),
                           LeverageVal(payload[r]), btc_price[r], decimals)
         IN  /\ size_btc' = [size_btc EXCEPT ![r] = sz]
             /\ IF SizeRejected(sz) THEN Fail(r, LogSize) ELSE Goto(r, "market_open")
    /\ UNCHANGED << payload, current_position, current_size, new_state, account_value,
                    btc_price, calls, positions, served >>

\* The position after a filled market order of `sz` on `szi` (or no entry).
Filled(szi, is_buy, sz) ==
    LET old == IF szi = NoEntry THEN <<0, 0>> ELSE szi
    IN  << old[1] + (IF is_buy THEN sz ELSE -sz), old[2] >>

\* Lines 170-174: exchange.market_open("BTC", is_buy, size_btc).
MarketOpen(r) ==
    /\ pc[r] = "market_open"
    /\ \E res \in PostResults :
         LET coin == Instrument(payload[r])
             is_buy == IsBuy(ActionOf(payload[r]))
         IN  /\ calls' = [calls EXCEPT ![r] =
                    Append(@, Call("market_open", coin, 0, is_buy, size_btc[r], res))]
             /\ positions' = IF res = "ok"
                       THEN [positions EXCEPT ![coin] = Filled(@, is_buy, size_btc[r])]
                       ELSE positions
             /\ IF res = "raise" THEN Raise(r)
                ELSE IF PostFailed(res) THEN Fail(r, LogOrderFailed)
                ELSE Goto(r, "final_state")
    /\ UNCHANGED << payload, locals, served >>

\* Lines 178-196: the account is read once more for the response.
FinalState(r) ==
    /\ pc[r] = "final_state"
    /\ \E res \in ReadResults, av \in Equities :
         IF res # "ok"
           THEN /\ RaiseRead(r, res)
                /\ UNCHANGED account_value
           ELSE LET f == FindPosition(positions, Instrument(payload[r]))
                    act == IF IsBuy(ActionOf(payload[r])) THEN "BUY" ELSE "SELL"
                IN  /\ account_value' = [account_value EXCEPT ![r] = av]
                    /\ Return(r, SuccessResponse(act,
                                 IF f[1] THEN SziAbs(f[2]) ELSE <<0, 0>>,
                                 IF f[1] THEN <<EntryPx>> ELSE <<>>, av))
    /\ UNCHANGED << payload, current_position, current_size, new_state, btc_price,
                    size_btc, calls, positions, served >>

Step(r) ==
    \/ UserState(r)
    \/ MarketClose(r)
    \/ UpdateLeverage(r)
    \/ NewState(r)
    \/ AllMids(r)
    \/ Meta(r)
    \/ MarketOpen(r)
    \/ FinalState(r)

\* One request at a time: a request is delivered when no handler is running.
Next ==
    \/ \E r \in Workers, p \in Alerts :
          /\ \A o \in Workers : ~InFlight(o)
          /\ Receive(r, p)
    \/ \E r \in Workers : Step(r)

Spec == Init /\ [][Next]_vars

\* Requests are delivered whenever a worker is free: handlers overlap.
NextConc ==
    \/ \E r \in Workers, p \in PlainAlerts : Receive(r, p)
    \/ \E r \in Workers : Step(r)

SpecConc == Init /\ [][NextConc]_vars

\* ------------------------------------------------------------------ claims
\* What the claims speak of, written out from the request and the calls so
\* that no definition of the handler above is part of it.
Fns(r) == [i \in 1..Len(calls[r]) |-> calls[r][i].fn]
Count(r, fn) == Cardinality({ i \in 1..Len(calls[r]) : calls[r][i].fn = fn })
HasRequest(r) == pc[r] # "idle" /\ ((payload[r].action # Missing) \/ (payload[r].signal # Missing))
Signal(r) ==
    LET raw == IF payload[r].action # Missing THEN payload[r].action ELSE payload[r].signal
    IN  IF raw \in {"buy", "BUY"} THEN "BUY"
        ELSE IF raw \in {"sell", "SELL"} THEN "SELL"
        ELSE "OTHER"
Opposes(r) ==
    /\ HasRequest(r)
    /\ \/ Signal(r) = "BUY" /\ current_position[r] = "SHORT"
       \/ Signal(r) = "SELL" /\ current_position[r] = "LONG"
SameDirection(r) ==
    /\ HasRequest(r)
    /\ \/ Signal(r) = "BUY" /\ current_position[r] = "LONG"
       \/ Signal(r) = "SELL" /\ current_position[r] = "SHORT"
Ended(r) == pc[r] = "done"
Succeeded(r) == Ended(r) /\ response[r].status = "success"
Errored(r) == Ended(r) /\ response[r].status = "error"

ClosedOk(r) == \E i \in 1..Len(calls[r]) : calls[r][i].fn = "market_close" /\ calls[r][i].res = "ok"

NoTradeResponse(resp) ==
    resp.status = "success" /\ resp.price = <<>> /\ resp.size # <<0, 0>>

\* C2: a request whose signal matches the position it read issues no
\* market_close and no market_open (no mutation call at all), and returns at
\* once a success that carries the existing size and no fill price; no request
\* that issued a market_open returns a response of that shape.
C2_SameDirectionNoOrder ==
    \A r \in Workers :
        /\ SameDirection(r) =>
              /\ calls[r] = <<>>
              /\ Ended(r)
              /\ NoTradeResponse(response[r])
              /\ response[r].action = Signal(r)
              /\ response[r].size = (IF current_size[r][1] < 0
                                       THEN << -current_size[r][1], -current_size[r][2] >>
                                       ELSE current_size[r])
        /\ Count(r, "market_open") > 0 => ~NoTradeResponse(response[r])

\* A SELL that found the account SHORT and returned.
C2_Witness ==
    \E r \in Workers :
        SameDirection(r) /\ Signal(r) = "SELL" /\ Ended(r) /\ calls[r] = <<>>

\* C3: a request whose action is neither BUY nor SELL issues no mutation
\* call and does not end in success.
C3_UnknownActionRejected ==
    \A r \in Workers :
        (HasRequest(r) /\ Signal(r) = "OTHER") =>
            /\ calls[r] = <<>>
            /\ ~Succeeded(r)

\* A worker is inside a reversal: its close is issued, its open not yet
\* returned.
InReversal(r) ==
    /\ Count(r, "market_close") = 1
    /\ pc[r] \in {"update_leverage", "new_state", "all_mids", "meta", "market_open"}

\* C4: at most one close+open reversal sequence is in progress at any time.
C4_OneReversalAtATime ==
    \A r, o \in Workers : (r # o /\ InReversal(r)) => ~InReversal(o)

OpensPlaced(r) ==
    Cardinality({ i \in 1..Len(calls[r]) :
                    calls[r][i].fn = "market_open" /\ calls[r][i].res = "ok" })

\* C5: two overlapping requests with the same action, both of which found
\* the position opposing it, place at most one market_open between them.
C5_NoDoubleOpen ==
    \A r, o \in Workers :
        (r # o /\ Opposes(r) /\ Opposes(o) /\ Signal(r) = Signal(o)) =>
            OpensPlaced(r) + OpensPlaced(o) <= 1

\* C6: a market_open is issued only after an update_leverage of the same
\* request came back with status ok; an update_leverage that came back with
\* another status, or raised, ends the request in an error with no
\* market_open.
C6_LeverageBeforeOpen ==
    \A r \in Workers :
        /\ (pc[r] = "market_open" \/ Count(r, "market_open") > 0) =>
              \E j \in 1..Len(calls[r]) :
                  /\ calls[r][j].fn = "update_leverage" /\ calls[r][j].res = "ok"
                  /\ \A i \in 1..Len(calls[r]) : calls[r][i].fn = "market_open" => j < i
        /\ \A j \in 1..Len(calls[r]) :
              (calls[r][j].fn = "update_leverage" /\ calls[r][j].res # "ok") =>
                  /\ Errored(r)
                  /\ Count(r, "market_open") = 0

\* An open was issued, after a leverage update that went through.
C6_Witness ==
    \E r \in Workers :
        /\ Count(r, "market_open") = 1
        /\ \E j \in 1..Len(calls[r]) :
              calls[r][j].fn = "update_leverage" /\ calls[r][j].res = "ok"

\* The request has computed its order size.
Sized(r) == btc_price[r] > 0 /\ pc[r] \in {"market_open", "final_state", "done"}

\* C7: market_open is never called with a size of zero or less; a request
\* whose rounded size is zero or less ends in an error without an order.
C7_NoNonPositiveOrder ==
    \A r \in Workers :
        /\ \A i \in 1..Len(calls[r]) : calls[r][i].fn = "market_open" => calls[r][i].size > 0
        /\ pc[r] = "market_open" => size_btc[r] > 0
        /\ (Sized(r) /\ size_btc[r] <= 0) =>
              /\ Errored(r)
              /\ Count(r, "market_open") = 0

\* A positive quantity that rounded to zero, and was refused.
C7_Witness ==
    \E r \in Workers :
        /\ Sized(r) /\ size_btc[r] = 0 /\ account_value[r] > 0
        /\ payload[r].leverage = Missing /\ payload[r].risk_pct = Missing
        /\ Errored(r) /\ Count(r, "market_open") = 0

\* The price lookup of the request found no usable price.
PriceMissing(r) ==
    \E i \in 1..Len(log[r]) : log[r][i] = "Failed to retrieve BTC price for sizing"

\* C8: a request whose price lookup finds no usable price has issued no
\* mutation call before, and ends in a validation failure.
C8_NoPriceBeforeMutation ==
    \A r \in Workers :
        PriceMissing(r) => (calls[r] = <<>> /\ response[r].http = 400)

\* The request read a BTC entry whose size is exactly zero.
FoundZero(r) == current_position[r] = "FLAT" /\ current_size[r] = <<0, 0>>

FoundFlat(r) ==
    /\ HasRequest(r)
    /\ pc[r] # "user_state"
    /\ current_position[r] \in {"None", "FLAT"}

\* C10: a BUY or SELL request that found the position FLAT issues no
\* market_close, and every open it issues is on the side of its signal;
\* when it ends in success it has issued exactly one open.
C10_FlatOpensInDirection ==
    \A r \in Workers :
        (FoundFlat(r) /\ Signal(r) \in {"BUY", "SELL"}) =>
            /\ Count(r, "market_close") = 0
            /\ \A i \in 1..Len(calls[r]) :
                 calls[r][i].fn = "market_open" => (calls[r][i].is_buy <=> Signal(r) = "BUY")
            /\ Succeeded(r) => Count(r, "market_open") = 1

\* A SELL on a flat account that placed its sell order.
C10_Witness ==
    \E r \in Workers :
        /\ FoundFlat(r) /\ Signal(r) = "SELL" /\ current_position[r] = "FLAT"
        /\ Count(r, "market_open") = 1 /\ Succeeded(r)

\* The request asks for more risk than the configured maximum.
AsksOverMax(r) ==
    /\ HasRequest(r)
    /\ payload[r].risk_pct \in {"3", "150"}
    /\ MAX_RISK_PCT = "2"

\* C11: a request that asks for a risk_pct above the configured maximum is
\* sized with the configured maximum: the size it is about to submit is the
\* quantity account_value * max/100 * leverage / price, rounded to some
\* number of decimals.
C11_RiskCappedAtConfiguredMax ==
    \A r \in Workers :
        (AsksOverMax(r) /\ pc[r] = "market_open") =>
            \E decimals \in 0..SizeScale :
                size_btc[r] = RoundTo(account_value[r] * 2 * LeverageVal(payload[r]),
                                      100 * btc_price[r], decimals)

\* C12: a request whose leverage field is missing, unparseable, zero or
\* negative passes the configured default leverage to update_leverage.
C12_BadLeverageUsesDefault ==
    \A r \in Workers :
        (HasRequest(r) /\ payload[r].leverage \in {Missing, "x", "0", "-1"}) =>
            \A i \in 1..Len(calls[r]) :
                calls[r][i].fn = "update_leverage" => calls[r][i].lev = default_leverage_val

\* C13: the size a request is about to submit is never greater than the raw
\* quantity account_value * risk_pct/100 * leverage / price it was rounded
\* from (sizes are in units of 10^-SizeScale).
C13_RoundingNeverIncreases ==
    \A r \in Workers :
        pc[r] = "market_open" =>
            size_btc[r] * 100 * btc_price[r]
                <= account_value[r] * RiskPct(payload[r]) * LeverageVal(payload[r])
                     * Pow10(SizeScale)

\* A read of the request was turned away for rate: the handler logged the
\* exception of its one attempt.
RateLimited(r) ==
    \E i \in 1..Len(log[r]) : log[r][i] = "Exception in webhook processing: 429"

\* C14: a request one of whose exchange reads was rate limited once does not
\* end in an error on that account: the read is attempted again.
C14_RateLimitedReadRetried ==
    \A r \in Workers : RateLimited(r) => ~Errored(r)

\* The request was refused for its computed size.
SizeRefused(r) ==
    \E i \in 1..Len(log[r]) : log[r][i] = "Calculated trade size is non-positive"

\* C15: a request that ends in an error carries an HTTP status that names
\* the class of the failure: 400 for a refused size, 429 for a rate limit,
\* 500 for another exchange failure; never a success status.
C15_ErrorStatusByClass ==
    \A r \in Workers :
        Errored(r) =>
            /\ response[r].http \in {400, 429, 500}
            /\ SizeRefused(r) => response[r].http = 400
            /\ RateLimited(r) => response[r].http = 429
            /\ (~SizeRefused(r) /\ ~RateLimited(r)) => response[r].http = 500

\* C16: a request whose market_close came back with anything but a
\* successful result (a non-ok status, nothing, an exception) ends without
\* issuing update_leverage or market_open; a request that had to close issues
\* its later calls only after a successful close.
C16_OpenOnlyAfterConfirmedClose ==
    \A r \in Workers :
        /\ \A i \in 1..Len(calls[r]) :
              (calls[r][i].fn = "market_close" /\ calls[r][i].res # "ok") =>
                  /\ Count(r, "update_leverage") = 0
                  /\ Count(r, "market_open") = 0
        /\ (Opposes(r) /\ Count(r, "update_leverage") + Count(r, "market_open") > 0) =>
              (Len(calls[r]) > 0 /\ calls[r][1].fn = "market_close" /\ calls[r][1].res = "ok")

\* C17: within one request market_close is called at most once and
\* market_open at most once, whatever the exchange calls answer; a call that
\* failed or raised is the last call of its request.
C17_OrdersAtMostOnce ==
    \A r \in Workers :
        /\ Count(r, "market_close") <= 1
        /\ Count(r, "market_open") <= 1
        /\ \A i \in 1..Len(calls[r]) :
              calls[r][i].res \in {"err", "raise"} => (i = Len(calls[r]) /\ Ended(r))

\* A reversal whose open raised after its close went through: one close, one
\* open, and the request over.
C17_Witness ==
    \E r \in Workers :
        /\ Ended(r)
        /\ Len(calls[r]) = 3
        /\ calls[r][1].fn = "market_close" /\ calls[r][1].res = "ok"
        /\ calls[r][3].fn = "market_open" /\ calls[r][3].res = "raise"

\* The open of the request failed after its close went through.
OpenFailedAfterClose(r) ==
    /\ Len(calls[r]) = 3
    /\ calls[r][1].fn = "market_close" /\ calls[r][1].res = "ok"
    /\ calls[r][3].fn = "market_open" /\ calls[r][3].res # "ok"

\* C18: a request whose market_open failed after its market_close went
\* through ends in an error, with the failed open as its last mutation call,
\* and its response tells the client that the account is now flat: the body
\* carries a position size, which is zero.
C18_OpenFailureReportsFlat ==
    \A r \in Workers :
        OpenFailedAfterClose(r) =>
            /\ Errored(r)
            /\ "size" \in BodyKeys(response[r])
            /\ response[r].size = <<0, 0>>

\* The request closed the opposing position and, after the close and the
\* leverage update, read the account again.
RereadAfterClose(r) ==
    /\ Opposes(r) /\ ClosedOk(r)
    /\ pc[r] \in {"all_mids", "meta", "market_open"}

\* C19: the open of a reversal is decided on the state read after the close,
\* not on the position classified before it: a request goes on to size and
\* place its open only when the account it read again shows no BTC position
\* left (no entry, or a size below 1e-9).
C19_OpenDecidedOnRereadState ==
    \A r \in Workers :
        RereadAfterClose(r) => (new_state[r] = <<>> \/ new_state[r][1] = 0)

\* C20: the step in which a request finds the position already on the side
\* of its signal is its only step: it ends there in success, having issued no
\* mutation call (no update_leverage either, whatever leverage it asked for)
\* and having read nothing further; the account's position is left as it
\* was, and the size it reports is the magnitude of the position that one
\* read showed.
C20_NoOpTouchesNothing ==
    [][ \A r \in Workers :
          (pc[r] = "user_state" /\ SameDirection(r)') =>
              /\ pc'[r] = "done"
              /\ calls'[r] = <<>>
              /\ positions' = positions
              /\ new_state'[r] = <<>> /\ btc_price'[r] = 0
              /\ response'[r].status = "success"
              /\ response'[r].account_value \in Equities
              /\ response'[r].size = (IF positions["BTC"][1] < 0
                                        THEN << -positions["BTC"][1], -positions["BTC"][2] >>
                                        ELSE positions["BTC"]) ]_vars

\* A BUY that asked for leverage 3, found the account LONG and returned
\* without a call.
C20_Witness ==
    \E r \in Workers :
        /\ SameDirection(r) /\ Signal(r) = "BUY" /\ payload[r].leverage = "3"
        /\ Ended(r) /\ calls[r] = <<>>
        /\ response[r].size = positions["BTC"]

=============================================================================
